---- MODULE Spec2Model ----
(***************************************************************************)
(* Model of the multi-tenant buffered append-blob writer:                  *)
(*   app/lib/BlobWriter.py            the writer (buffer, timer, flush)    *)
(*   app/lib/tenant_connect/manager_blob.py   the tenant registry          *)
(*   app/blob_data_handler.py         start of the writers and dispatch    *)
(* Strings of the program are modelled as tuples of one-character strings  *)
(* so that split / replace / concatenation are computed, not assumed.      *)
(***************************************************************************)
EXTENDS Integers, Sequences, FiniteSets, TLC

(* ------------------------------ bounds --------------------------------- *)
\* records a producer may enqueue on the running writer (specification Spec)
MaxEnq == 2
\* number of start() calls on one writer (each one begins a timer chain)
MaxStarts == 1
\* number of stop() calls on one writer
MaxStops == 1
\* timer chains one writer may have (specification SpecStarts lets start() be
\* called that often on one writer; the others MaxStarts times)
MaxChains == 2
\* clear_buffer calls on the MicroQueueConsumer, and the threads that use it
MaxClears == 2
\* KeyboardInterrupts delivered to the main thread
MaxInterrupts == 2
\* length of the buffer handed to one flush (specification SpecFlush)
MaxSnap == 3
\* storage calls (list, create, append) that fail in one run
MaxFaults == 2

(* ------------------------- program constants --------------------------- *)
\* BlobWriter.__init__: self.max_packet_size_bytes = 3 * 1024 * 1024
max_packet_size_bytes == 3 * 1024 * 1024
\* BlobWriter.__init__: self.timer = False
NoTimer == 0
\* the thread that calls stop(); the timer threads are 1..MaxChains
Stopper == 0

Chains == 1..MaxChains
Procs == {Stopper} \cup Chains

(* ------------------------------ strings -------------------------------- *)
Min(a, b) == IF a < b THEN a ELSE b

\* str.split(sep) for a one-character separator
RECURSIVE Split(_, _)
Split(s, sep) ==
  IF \A i \in 1..Len(s) : s[i] # sep
  THEN <<s>>
  ELSE LET i == CHOOSE k \in 1..Len(s) : s[k] = sep /\ \A j \in 1..(k-1) : s[j] # sep
       IN  <<SubSeq(s, 1, i-1)>> \o Split(SubSeq(s, i+1, Len(s)), sep)

\* str.replace(ch, '')
Remove(s, ch) == SelectSeq(s, LAMBDA c : c # ch)

\* a key that is not in the dict (item['data']['type'] raises KeyError)
KeyAbsent == <<"<absent>">>

HB == <<"h","b">>
FAULT == <<"f","l","t">>
Day1 == <<"2","0","2","4","-","0","1","-","0","1">>
Day1Compact == <<"2","0","2","4","0","1","0","1">>
Clock0800 == <<"0","8",":","0","0",":","0","0">>
Clock0830 == <<"0","8",":","3","0",":","0","0">>
Clock0915 == <<"0","9",":","1","5",":","0","0">>
TS0800 == Day1 \o <<"T">> \o Clock0800
TS0830 == Day1 \o <<"T">> \o Clock0830
TS0915 == Day1 \o <<"T">> \o Clock0915
\* a timestamp with a blank instead of the 'T': split('T') has one part only
TSNoT == Day1 \o <<" ">> \o Clock0800

\* serialized sizes len(json.dumps(item).encode('utf-8')) used by the model
\* (three records, one record, no record of that size in the ceiling)
SizeSmall == 1000 * 1000
SizeHalf == 2 * 1000 * 1000
SizeHuge == 4 * 1024 * 1024

(* ------------------------ BlobWriter: pure part ------------------------ *)
\* item['data']['type'], item['meta']['timestamp'].split('T'), date_parts[1]
ItemRaises(item) ==
  \/ item.type = KeyAbsent
  \/ item.timestamp = KeyAbsent
  \/ Len(Split(item.timestamp, "T")) < 2

ItemDate(item) == Remove(Split(item.timestamp, "T")[1], "-")
ItemTime(item) == Split(Split(item.timestamp, "T")[2], ":")[1]
ItemKey(item) == [type |-> item.type, date |-> ItemDate(item), time |-> ItemTime(item)]

\* unique_id = f"{type}-{date}-{time}"
UniqueId(k) == k.type \o <<"-">> \o k.date \o <<"-">> \o k.time

\* process_input_array: the keys in first-seen order, one per unique_id
RECURSIVE ProcessFrom(_, _, _, _)
ProcessFrom(input_array, i, processed_array, seen) ==
  IF i > Len(input_array) THEN processed_array
  ELSE LET k == ItemKey(input_array[i])
           u == UniqueId(k)
       IN  IF u \in seen
           THEN ProcessFrom(input_array, i + 1, processed_array, seen)
           ELSE ProcessFrom(input_array, i + 1, Append(processed_array, k), seen \cup {u})

process_input_array_raises(input_array) ==
  \E i \in 1..Len(input_array) : ItemRaises(input_array[i])

\* a plausible slip: the keys come out newest first
process_input_array_newest_first(input_array) ==
  LET keys == ProcessFrom(input_array, 1, <<>>, {})
  IN  [k \in 1..Len(keys) |-> keys[Len(keys) + 1 - k]]

process_input_array(input_array) == ProcessFrom(input_array, 1, <<>>, {})

\* a plausible slip: only the first run of adjacent matching records is taken
RECURSIVE FirstRun(_, _, _, _, _)
FirstRun(input_array, i, type_to_match, date_to_match, time_to_match) ==
  IF i > Len(input_array) THEN <<>>
  ELSE LET item == input_array[i]
           hit == /\ item.type = type_to_match
                  /\ ItemDate(item) = date_to_match
                  /\ ItemTime(item) = time_to_match
       IN  IF hit
           THEN IF i < Len(input_array)
                   /\ ~ ( /\ input_array[i+1].type = type_to_match
                          /\ ItemDate(input_array[i+1]) = date_to_match
                          /\ ItemTime(input_array[i+1]) = time_to_match )
                THEN <<item>>
                ELSE <<item>> \o FirstRun(input_array, i + 1, type_to_match,
                                          date_to_match, time_to_match)
           ELSE FirstRun(input_array, i + 1, type_to_match, date_to_match, time_to_match)

filter_adjacent(input_array, type_to_match, date_to_match, time_to_match) ==
  FirstRun(input_array, 1, type_to_match, date_to_match, time_to_match)

filter_by_type_and_date(input_array, type_to_match, date_to_match, time_to_match) ==
  SelectSeq(input_array, LAMBDA item :
      /\ item.type = type_to_match
      /\ ItemDate(item) = date_to_match
      /\ ItemTime(item) = time_to_match)

\* a plausible slip: the hour is left out of the name
FileNameOfDay(k) == k.type \o <<".">> \o k.date \o <<".", "f", "d">>

\* file_name = f"{data['type']}.{data['date']}.{data['time']}.fd"
FileName(k) == k.type \o <<".">> \o k.date \o <<".">> \o k.time \o <<".", "f", "d">>

\* math.floor(max_packet_size_bytes / len(json.dumps(data[0]).encode('utf-8')))
PacketSize(data) ==
  IF Len(data) > 0 THEN max_packet_size_bytes \div data[1].size ELSE 0

\* data[i:i+packet_size]
Packet(data, i, packet_size) == SubSeq(data, i + 1, Min(i + packet_size, Len(data)))

\* '\n'.join(json.dumps(item) for item in packet_data): the lines of the
\* packet, a newline after each of them but the last
JoinLines(packet_data) ==
  [i \in 1..Len(packet_data) |->
     [line |-> packet_data[i], newline |-> i < Len(packet_data)]]

\* a plausible slip: the joined lines without the closing newline
DataJoinedOnly(packet_data) == JoinLines(packet_data)

\* data_to_append = '\n'.join(...) + '\n'
DataToAppend(packet_data) ==
  LET joined == JoinLines(packet_data)
  IN  IF joined = <<>> THEN <<[line |-> [size |-> 0], newline |-> TRUE]>>
      ELSE [joined EXCEPT ![Len(joined)].newline = TRUE]

\* len(data_to_append.encode('utf-8')): the JSON texts and one byte per newline
RECURSIVE PayloadBytes(_)
PayloadBytes(payload) ==
  IF payload = <<>> THEN 0
  ELSE payload[1].line.size + (IF payload[1].newline THEN 1 ELSE 0)
       + PayloadBytes(Tail(payload))

(* ------------------------- tenants and writers ------------------------- *)
\* tenant ids a caller may pass; "tx" is in no configuration
TenantIds == {"t1", "t2", "tx"}
\* the BlobWriter objects that load_blob_connections constructs
Writers == {"w1", "w2"}
\* a plausible slip: every writer is given the client of one container
ContainerShared(w) == "c1"

\* BlobWriter.__init__: self.container_client
ContainerOf(w) == IF w = "w2" THEN "c2" ELSE "c1"
Containers == {"c1", "c2"}

VARIABLES
  connections,   \* TenantBlobManager._connections : tenant id -> writer
  blob_writers,  \* blob_data_handler.blob_writers : tenant id -> writer
  reply,         \* what the last dispatch / lookup call gave its caller
  buffer,        \* buffer[w]  : self.buffer (queue.Queue), oldest first
  running,       \* running[w] : self.running
  timer,         \* timer[w]   : self.timer (NoTimer, or the chain of the Timer)
  pc,            \* pc[w][p]   : where thread p of writer w stands
  tmp_buffer,    \* tmp_buffer[w][p] : clear_buffer / write_buffer_to_blob local
  blob_data,     \* blob_data[w][p]  : write_buffer_to_blob local (the keys)
  gi,            \* gi[w][p]   : index in blob_data of the group being written
  pkt,           \* pkt[w][p]  : i of "for i in range(0, len(data), packet_size)"
  calls,         \* calls[w][p]: storage calls of the flush that thread p is in
  blobs,         \* blobs[c]   : the append blobs of container c, name -> lines
  nextId,        \* history: identity given to the next enqueued record
  returned,      \* history: returned[w], the non-empty snapshots clear_buffer returned
  stops,         \* history: stops[w], number of stop() calls so far
  nflush,        \* history: nflush[w], write_buffer_to_blob calls of the last stop()
  late,          \* history: late[w], ids enqueued after the last stop()'s drain ended
  stopPre,       \* history: stopPre[w], running, buffer length and blobs when stop() was called
  faults,        \* history: number of storage calls that have failed
  drainFrom,     \* history: drainFrom[w][p], the identity of the next record when the
                 \* drain thread p is in first found the buffer non-empty (0: no such drain)
  sent,          \* history: sent[id], the tenant id record id was dispatched with
  q_buffer,      \* MicroQueueConsumer: self.buffer (a list), oldest first
  q_lock,        \* MicroQueueConsumer: self.lock, the thread that holds it or NoHolder
  q_pc,          \* q_pc[t]  : where thread t stands in appendBuffer / clear_buffer
  q_message,     \* q_message[t] : the argument of the appendBuffer thread t is in
  q_tmp,         \* q_tmp[t] : tmp_buffer of the clear_buffer thread t is in
  q_returned,    \* history: the lists clear_buffer has returned, in order
  q_appended,    \* history: the messages in the order self.buffer.append took them
  q_next,        \* history: identity given to the next message
  main_pc,       \* where the main thread stands in main() / run_forever()
  retry_count,   \* main(): retry_count
  reader,        \* main(): reader (NoReader, or the fields of the KafkaReader)
  interrupts     \* history: KeyboardInterrupts delivered to the main thread

vars == <<connections, blob_writers, reply, buffer, running, timer, pc, tmp_buffer,
          blob_data, gi, pkt, calls, blobs, nextId, returned, stops, nflush, late,
          stopPre, faults, drainFrom, sent, q_buffer, q_lock, q_pc, q_message, q_tmp,
          q_returned, q_appended, q_next, main_pc, retry_count, reader, interrupts>>

registryVars == <<connections, blob_writers, reply>>
flushLocals == <<tmp_buffer, blob_data, gi, pkt, drainFrom>>
stopHistory == <<stops, nflush, stopPre>>
queueVars == <<q_buffer, q_lock, q_pc, q_message, q_tmp, q_returned, q_appended, q_next>>
mainVars == <<main_pc, retry_count, reader, interrupts>>
\* the registry, the dispatcher, the writers and the storage
vars_writers == <<connections, blob_writers, reply, buffer, running, timer, pc, tmp_buffer,
                  blob_data, gi, pkt, calls, blobs, nextId, returned, stops, nflush, late,
                  stopPre, faults, drainFrom>>

\* threading.Lock: nobody holds it
NoHolder == 0
\* the threads that call appendBuffer and clear_buffer of the MicroQueueConsumer
QThreads == 1..MaxClears
\* reader = None in main()
NoReader == [made |-> FALSE, stop_event |-> FALSE, consuming |-> FALSE, starts |-> 0]
NoTenant == "none"

\* a storage call returns (TRUE) or raises (FALSE)
Outcomes == IF faults < MaxFaults THEN BOOLEAN ELSE {TRUE}
Counted(ok) == faults' = IF ok THEN faults ELSE faults + 1

(* ----------------------------- storage --------------------------------- *)
\* container_client.list_blobs(): the names, or an exception
Exists(c, name) == name \in DOMAIN blobs[c]
\* blob_client.create_append_blob(): a new 0-length append blob under that name
Created(c, name) == [blobs EXCEPT ![c] = (name :> <<>>) @@ blobs[c]]
\* blob_client.append_block(data_to_append.encode('utf-8'))
Appended(c, name, data) == [blobs EXCEPT ![c][name] = blobs[c][name] \o data]

Call(op, name, data, ok) == [op |-> op, name |-> name, data |-> data, ok |-> ok]
Logged(w, p, call) == [calls EXCEPT ![w][p] = Append(calls[w][p], call)]

(* ------------------------------ writer --------------------------------- *)
\* a record as the writer sees it: item['data']['type'], item['meta']['timestamp']
\* and the length of its JSON text; id tells two equal records apart
Item(id, type, timestamp, size) ==
  [id |-> id, type |-> type, timestamp |-> timestamp, size |-> size]

\* the key, the records and the target of the group thread p is writing
GroupKey(w, p) == blob_data[w][p][gi[w][p]]
FileData(w, p) ==
  filter_by_type_and_date(tmp_buffer[w][p], GroupKey(w, p).type,
                          GroupKey(w, p).date, GroupKey(w, p).time)
GroupFile(w, p) == FileName(GroupKey(w, p))

\* has the stop() of writer w passed the end of its drain
StopDrained(w) == pc[w][Stopper] \notin {"idle", "cb_test", "cb_get"}

\* a plausible slip: the new record goes to the head of the queue
PutFirst(q, message) == <<message>> \o q

\* queue.Queue.put: the queue is first in, first out and has no capacity bound
Put(q, message) == Append(q, message)

\* a plausible slip: a flush keeps the queue's lock while it is in a storage call
MutexHeldInStorage(w) ==
  { p \in Procs :
      pc[w][p] \in {"cab_list", "cab_create", "adb_list", "adb_create", "adb_append"} }

\* the threads that hold the mutex of self.buffer between two steps: empty()
\* and get() of clear_buffer release it before they return, and nothing else
\* of the writer takes it
QueueMutexHolders(w) == {}

\* BlobWriter.message_handler: self.buffer.put(message); put takes the mutex
\* of the queue and, the queue being unbounded, never waits for room
MessageHandler(w, message) ==
  /\ QueueMutexHolders(w) = {}
  /\ buffer' = [buffer EXCEPT ![w] = Put(buffer[w], message)]
  /\ late' = [late EXCEPT ![w] = IF StopDrained(w) THEN late[w] \cup {message.id}
                                 ELSE late[w]]

\* entry of write_buffer_to_blob: fresh locals
EnterFlush(w, p) ==
  /\ tmp_buffer' = [tmp_buffer EXCEPT ![w][p] = <<>>]
  /\ blob_data' = [blob_data EXCEPT ![w][p] = <<>>]
  /\ gi' = [gi EXCEPT ![w][p] = 0]
  /\ pkt' = [pkt EXCEPT ![w][p] = 0]
  /\ calls' = [calls EXCEPT ![w][p] = <<>>]
  /\ drainFrom' = [drainFrom EXCEPT ![w][p] = 0]

\* the start() calls that writer w has had: each one began a timer chain
StartCalls(w) == Cardinality({ c \in Chains : pc[w][c] # "unused" })

\* BlobWriter.start, called at most cap times: running is set and a Timer is
\* created and started, whatever running and self.timer were before
StartWithin(w, cap) ==
  /\ StartCalls(w) < cap
  /\ \E c \in Chains :
       /\ pc[w][c] = "unused"
       /\ \A d \in Chains : d < c => pc[w][d] # "unused"
       /\ running' = [running EXCEPT ![w] = TRUE]
       /\ timer' = [timer EXCEPT ![w] = c]
       /\ pc' = [pc EXCEPT ![w][c] = "pending"]
  /\ UNCHANGED <<sent, queueVars, mainVars,
                 faults, registryVars, buffer, flushLocals, calls, blobs, nextId, returned,
                 late, stopHistory>>

Start(w) == StartWithin(w, MaxStarts)

\* threading.Timer: the interval has passed and the timer was not cancelled
TimerFire(w, c) ==
  /\ pc[w][c] = "pending"
  /\ pc' = [pc EXCEPT ![w][c] = "rp_check"]
  /\ UNCHANGED <<sent, queueVars, mainVars,
                 faults, registryVars, buffer, running, timer, flushLocals, calls, blobs,
                 nextId, returned, late, stopHistory>>

\* BlobWriter.run_periodically, line 57: if self.running
RunPeriodically(w, c) ==
  /\ pc[w][c] = "rp_check"
  /\ pc' = [pc EXCEPT ![w][c] = IF running[w] THEN "rp_flush" ELSE "finished"]
  /\ UNCHANGED <<sent, queueVars, mainVars,
                 faults, registryVars, buffer, running, timer, flushLocals, calls, blobs,
                 nextId, returned, late, stopHistory>>

\* BlobWriter.run_periodically, line 58: self.write_buffer_to_blob(), called
\* by a thread that has read self.running as True
RunPeriodicallyWrite(w, c) ==
  /\ pc[w][c] = "rp_flush"
  /\ pc' = [pc EXCEPT ![w][c] = "cb_test"]
  /\ EnterFlush(w, c)
  /\ UNCHANGED <<sent, queueVars, mainVars,
                 faults, registryVars, buffer, running, timer, blobs, nextId, returned,
                 late, stopHistory>>

\* BlobWriter.run_periodically, lines 59-60: the next Timer
Reschedule(w, c) ==
  /\ pc[w][c] = "rp_resched"
  /\ timer' = [timer EXCEPT ![w] = c]
  /\ pc' = [pc EXCEPT ![w][c] = "pending"]
  /\ calls' = [calls EXCEPT ![w][c] = <<>>]
  /\ UNCHANGED <<sent, queueVars, mainVars,
                 faults, registryVars, buffer, running, flushLocals, blobs, nextId,
                 returned, late, stopHistory>>

\* self.timer.cancel(): a Timer that has not fired yet never fires
Cancelled(w) ==
  IF timer[w] # NoTimer /\ pc[w][timer[w]] = "pending"
  THEN [pc[w] EXCEPT ![timer[w]] = "cancelled"]
  ELSE pc[w]

\* a plausible slip: stop() without its final write_buffer_to_blob
StopWithoutFlush(w) ==
  /\ pc[w][Stopper] \in {"idle", "returned", "raised"}
  /\ stops[w] < MaxStops
  /\ stops' = [stops EXCEPT ![w] = stops[w] + 1]
  /\ stopPre' = [stopPre EXCEPT ![w] = [running |-> running[w], n |-> Len(buffer[w]),
                                          blobs |-> blobs[ContainerOf(w)]]]
  /\ running' = [running EXCEPT ![w] = FALSE]
  /\ pc' = [pc EXCEPT ![w] = [Cancelled(w) EXCEPT ![Stopper] = "returned"]]
  /\ nflush' = [nflush EXCEPT ![w] = 0]
  /\ late' = [late EXCEPT ![w] = {}]
  /\ UNCHANGED <<sent, queueVars, mainVars,
                 faults, registryVars, buffer, timer, flushLocals, calls, blobs, nextId, returned>>

\* BlobWriter.stop, lines 65-68: up to the call of write_buffer_to_blob
StopBegin(w) ==
  /\ pc[w][Stopper] \in {"idle", "returned", "raised"}
  /\ stops[w] < MaxStops
  /\ stops' = [stops EXCEPT ![w] = stops[w] + 1]
  /\ stopPre' = [stopPre EXCEPT ![w] = [running |-> running[w], n |-> Len(buffer[w]),
                                          blobs |-> blobs[ContainerOf(w)]]]
  /\ running' = [running EXCEPT ![w] = FALSE]
  /\ pc' = [pc EXCEPT ![w] = [Cancelled(w) EXCEPT ![Stopper] = "cb_test"]]
  /\ nflush' = [nflush EXCEPT ![w] = 1]
  /\ late' = [late EXCEPT ![w] = {}]
  /\ EnterFlush(w, Stopper)
  /\ UNCHANGED <<sent, queueVars, mainVars,
                 faults, registryVars, buffer, timer, blobs, nextId, returned>>

\* write_buffer_to_blob has returned to its caller (run_periodically or stop)
AfterFlush(p) == IF p = Stopper THEN "returned" ELSE "rp_resched"
\* an exception leaves write_buffer_to_blob: stop() raises, a timer thread ends
AfterRaise(p) == IF p = Stopper THEN "raised" ELSE "died"

\* BlobWriter.clear_buffer, line 141: while not self.buffer.empty()
ClearBufferTest(w, p) ==
  /\ pc[w][p] = "cb_test"
  /\ IF buffer[w] = <<>>
     THEN /\ pc' = [pc EXCEPT ![w][p] = "wb_process"]
          /\ returned' = [returned EXCEPT ![w] =
                IF tmp_buffer[w][p] = <<>> THEN returned[w]
                ELSE Append(returned[w], tmp_buffer[w][p])]
          /\ drainFrom' = [drainFrom EXCEPT ![w][p] = 0]
     ELSE /\ pc' = [pc EXCEPT ![w][p] = "cb_get"]
          /\ drainFrom' = [drainFrom EXCEPT ![w][p] =
                             IF drainFrom[w][p] = 0 THEN nextId ELSE drainFrom[w][p]]
          /\ UNCHANGED returned
  /\ UNCHANGED <<sent, queueVars, mainVars,
                 faults, registryVars, buffer, running, timer, tmp_buffer, blob_data, gi,
                 pkt, calls, blobs, nextId, late, stopHistory>>

\* a plausible slip: the drain reads the head of the queue and leaves it there
LeftUntouched(q) == q

\* what self.buffer.get() takes from the queue and what it leaves
Got(q) == Head(q)
Left(q) == Tail(q)

\* BlobWriter.clear_buffer, line 142: tmp_buffer.append(self.buffer.get())
\* (Queue.get blocks while the queue is empty)
ClearBufferGet(w, p) ==
  /\ pc[w][p] = "cb_get"
  /\ buffer[w] # <<>>
  /\ tmp_buffer' = [tmp_buffer EXCEPT ![w][p] = Append(tmp_buffer[w][p], Got(buffer[w]))]
  /\ buffer' = [buffer EXCEPT ![w] = Left(buffer[w])]
  /\ pc' = [pc EXCEPT ![w][p] = "cb_test"]
  /\ UNCHANGED <<sent, queueVars, mainVars,
                 faults, registryVars, running, timer, blob_data, gi, pkt, drainFrom,
                 calls, blobs, nextId, returned, late, stopHistory>>

\* a plausible slip: the container is listed before the keys are looked at
ProcessInputTouchesStorage(w, p) ==
  /\ pc[w][p] = "wb_process"
  /\ IF process_input_array_raises(tmp_buffer[w][p])
     THEN /\ pc' = [pc EXCEPT ![w][p] = AfterRaise(p)]
          /\ UNCHANGED <<blob_data, gi, calls>>
     ELSE LET keys == process_input_array(tmp_buffer[w][p])
          IN  /\ blob_data' = [blob_data EXCEPT ![w][p] = keys]
              /\ gi' = [gi EXCEPT ![w][p] = IF keys = <<>> THEN 0 ELSE 1]
              /\ calls' = IF keys = <<>>
                          THEN Logged(w, p, Call("list", <<>>, <<>>, TRUE))
                          ELSE calls
              /\ pc' = [pc EXCEPT ![w][p] =
                          IF keys = <<>> THEN AfterFlush(p) ELSE "cab_list"]
  /\ UNCHANGED <<sent, queueVars, mainVars,
                 faults, registryVars, buffer, running, timer, tmp_buffer, pkt, drainFrom,
                 blobs, nextId, returned, late, stopHistory>>

\* write_buffer_to_blob, lines 131-132: the keys of the snapshot
ProcessInput(w, p) ==
  /\ pc[w][p] = "wb_process"
  /\ IF process_input_array_raises(tmp_buffer[w][p])
     THEN /\ pc' = [pc EXCEPT ![w][p] = AfterRaise(p)]
          /\ UNCHANGED <<blob_data, gi>>
     ELSE LET keys == process_input_array(tmp_buffer[w][p])
          IN  /\ blob_data' = [blob_data EXCEPT ![w][p] = keys]
              /\ gi' = [gi EXCEPT ![w][p] = IF keys = <<>> THEN 0 ELSE 1]
              /\ pc' = [pc EXCEPT ![w][p] =
                          IF keys = <<>> THEN AfterFlush(p) ELSE "cab_list"]
  /\ UNCHANGED <<sent, queueVars, mainVars,
                 faults, registryVars, buffer, running, timer, tmp_buffer, pkt, drainFrom,
                 calls, blobs, nextId, returned, late, stopHistory>>

\* the for loop of write_buffer_to_blob goes on with the next key, or ends
NextGroup(w, p) ==
  IF gi[w][p] < Len(blob_data[w][p])
  THEN /\ gi' = [gi EXCEPT ![w][p] = gi[w][p] + 1]
       /\ pc' = [pc EXCEPT ![w][p] = "cab_list"]
  ELSE /\ pc' = [pc EXCEPT ![w][p] = AfterFlush(p)]
       /\ UNCHANGED gi

\* create_append_blob, line 87: blob_name not in self.list_blob_names()
\* (list_blob_names answers [] when the listing fails)
CreateAppendBlobList(w, p) ==
  /\ pc[w][p] = "cab_list"
  /\ \E ok \in Outcomes :
       /\ Counted(ok)
       /\ calls' = Logged(w, p, Call("list", GroupFile(w, p), <<>>, ok))
       /\ pc' = [pc EXCEPT ![w][p] =
                   IF ok /\ Exists(ContainerOf(w), GroupFile(w, p))
                   THEN "adb_list" ELSE "cab_create"]
  /\ UNCHANGED <<sent, queueVars, mainVars,
                 registryVars, buffer, running, timer, flushLocals, blobs, nextId,
                 returned, late, stopHistory>>

\* create_append_blob, lines 88-92: create; an exception is printed, no more
CreateAppendBlobCreate(w, p) ==
  /\ pc[w][p] = "cab_create"
  /\ \E ok \in Outcomes :
       /\ Counted(ok)
       /\ calls' = Logged(w, p, Call("create", GroupFile(w, p), <<>>, ok))
       /\ blobs' = IF ok THEN Created(ContainerOf(w), GroupFile(w, p)) ELSE blobs
  /\ pc' = [pc EXCEPT ![w][p] = "adb_list"]
  /\ UNCHANGED <<sent, queueVars, mainVars,
                 registryVars, buffer, running, timer, flushLocals, nextId, returned,
                 late, stopHistory>>

\* append_data_to_blob, line 102: blob_name not in self.list_blob_names()
AppendDataList(w, p) ==
  /\ pc[w][p] = "adb_list"
  /\ \E ok \in Outcomes :
       /\ Counted(ok)
       /\ calls' = Logged(w, p, Call("list", GroupFile(w, p), <<>>, ok))
       /\ pc' = [pc EXCEPT ![w][p] =
                   IF ok /\ Exists(ContainerOf(w), GroupFile(w, p))
                   THEN "adb_append" ELSE "adb_create"]
  /\ pkt' = [pkt EXCEPT ![w][p] = 0]
  /\ UNCHANGED <<sent, queueVars, mainVars,
                 registryVars, buffer, running, timer, tmp_buffer, blob_data, gi,
                 drainFrom, blobs, nextId, returned, late, stopHistory>>

\* a plausible slip: the packets are appended although the create raised
AppendDataCreateGoesOn(w, p) ==
  /\ pc[w][p] = "adb_create"
  /\ \E ok \in Outcomes :
       /\ Counted(ok)
       /\ calls' = Logged(w, p, Call("create", GroupFile(w, p), <<>>, ok))
       /\ blobs' = IF ok THEN Created(ContainerOf(w), GroupFile(w, p)) ELSE blobs
       /\ pc' = [pc EXCEPT ![w][p] = "adb_append"]
       /\ UNCHANGED gi
  /\ UNCHANGED <<sent, queueVars, mainVars,
                 registryVars, buffer, running, timer, tmp_buffer, blob_data, pkt,
                 drainFrom, nextId, returned, late, stopHistory>>

\* append_data_to_blob, line 103: create; an exception ends the work on this
\* group (the except of line 126)
AppendDataCreate(w, p) ==
  /\ pc[w][p] = "adb_create"
  /\ \E ok \in Outcomes :
       /\ Counted(ok)
       /\ calls' = Logged(w, p, Call("create", GroupFile(w, p), <<>>, ok))
       /\ IF ok
          THEN /\ blobs' = Created(ContainerOf(w), GroupFile(w, p))
               /\ pc' = [pc EXCEPT ![w][p] = "adb_append"]
               /\ UNCHANGED gi
          ELSE /\ UNCHANGED blobs
               /\ NextGroup(w, p)
  /\ UNCHANGED <<sent, queueVars, mainVars,
                 registryVars, buffer, running, timer, tmp_buffer, blob_data, pkt,
                 drainFrom, nextId, returned, late, stopHistory>>

\* a plausible slip: the loop over the packets is left at the first failure
PacketLoopEndsAtFailure(data, i, packet_size, ok) == ~ok \/ i + packet_size >= Len(data)

\* does the loop over the packets end after the packet at offset i, whose
\* append_block returned (ok) or raised: the except of line 123 only logs
PacketLoopEnds(data, i, packet_size, ok) == i + packet_size >= Len(data)

\* a plausible slip: the packet whose append failed is sent again
NextOffsetRetry(i, packet_size, ok) == IF ok THEN i + packet_size ELSE i

\* range(0, len(data), packet_size): the offset of the packet after the one at
\* i, whose append_block returned (ok) or raised
NextOffset(i, packet_size, ok) == i + packet_size

\* append_data_to_blob, lines 109-125: one round of the loop over the packets;
\* range(0, len(data), 0) raises ValueError (the except of line 126)
AppendDataPacket(w, p) ==
  /\ pc[w][p] = "adb_append"
  /\ LET data == FileData(w, p)
         packet_size == PacketSize(data)
         i == pkt[w][p]
     IN  IF packet_size = 0
         THEN /\ NextGroup(w, p)
              /\ UNCHANGED <<calls, blobs, pkt, faults>>
         ELSE \E ok \in Outcomes :
                /\ Counted(ok)
                /\ ok => Exists(ContainerOf(w), GroupFile(w, p))
                /\ calls' = Logged(w, p, Call("append", GroupFile(w, p),
                                              Packet(data, i, packet_size), ok))
                /\ blobs' = IF ok
                            THEN Appended(ContainerOf(w), GroupFile(w, p),
                                          DataToAppend(Packet(data, i, packet_size)))
                            ELSE blobs
                /\ IF PacketLoopEnds(data, i, packet_size, ok)
                   THEN NextGroup(w, p) /\ UNCHANGED pkt
                   ELSE /\ pkt' = [pkt EXCEPT ![w][p] = NextOffset(i, packet_size, ok)]
                        /\ UNCHANGED <<pc, gi>>
  /\ UNCHANGED <<sent, queueVars, mainVars,
                 registryVars, buffer, running, timer, tmp_buffer, blob_data, drainFrom,
                 nextId, returned, late, stopHistory>>

\* one step of the write_buffer_to_blob that thread p is in
FlushStep(w, p) ==
  \/ ClearBufferTest(w, p)
  \/ ClearBufferGet(w, p)
  \/ ProcessInput(w, p)
  \/ CreateAppendBlobList(w, p)
  \/ CreateAppendBlobCreate(w, p)
  \/ AppendDataList(w, p)
  \/ AppendDataCreate(w, p)
  \/ AppendDataPacket(w, p)

(* ------------------------------ producer ------------------------------- *)
\* the records a producer enqueues on the running writer: one well formed,
\* one without data.type
SpecContents == { <<HB, TS0800, SizeSmall>>, <<KeyAbsent, TS0800, SizeSmall>> }

\* the records of the producers of Spec: those, and one that fills a packet
ProducerContents == SpecContents \cup { <<HB, TS0830, SizeHalf>> }

\* a producer thread calls message_handler of writer w
Enqueue(w) ==
  /\ nextId <= MaxEnq
  /\ \E f \in ProducerContents : MessageHandler(w, Item(nextId, f[1], f[2], f[3]))
  /\ nextId' = nextId + 1
  /\ UNCHANGED <<sent, queueVars, mainVars,
                 faults, registryVars, running, timer, pc, flushLocals, calls, blobs, returned,
                 stopHistory>>

(* ----------------------- registry and dispatcher ----------------------- *)
\* the dicts handed to initialize_connections: the tenants with a blob
\* container, each with its BlobWriter; the second is a reload without t1
ConfigA == ("t1" :> "w1") @@ ("t2" :> "w2")
ConfigB == ("t2" :> "w2")
Configs == {ConfigA, ConfigB}

\* load_blob_connections: the container named in each tenant's configuration
ContainerOfTenant == ("t1" :> "c1") @@ ("t2" :> "c2")

NoReply == [op |-> "none", tenant |-> "none", result |-> "none"]

\* a plausible slip: the load of the registry also switches its writers on
InitializeConnectionsStarting(conns) ==
  /\ connections' = conns
  /\ running' = [w \in Writers |->
                   IF \E t \in DOMAIN conns : conns[t] = w THEN TRUE ELSE running[w]]
  /\ UNCHANGED <<sent, queueVars, mainVars,
                 faults, blob_writers, reply, buffer, timer, pc, flushLocals, calls,
                 blobs, nextId, returned, late, stopHistory>>

\* TenantBlobManager.initialize_connections
InitializeConnections(conns) ==
  /\ connections' = conns
  /\ UNCHANGED <<sent, queueVars, mainVars,
                 faults, blob_writers, reply, buffer, running, timer, pc, flushLocals, calls,
                 blobs, nextId, returned, late, stopHistory>>

\* the chain that a start() of writer w begins: the first unused one
FreeChain(w) == CHOOSE c \in Chains : pc[w][c] = "unused" /\ \A d \in Chains : d < c => pc[w][d] # "unused"

\* a plausible slip: the loop over the writers ends after the first of them
StartedFirstOnly(conns) ==
  IF DOMAIN conns = {} THEN {}
  ELSE { conns[CHOOSE t \in DOMAIN conns : TRUE] }

\* initialize_blob_writers, lines 11-18: a thread per writer of the dict, each
\* running start(); no storage call is made here, nor in BlobWriter.__init__
Started(conns) == { conns[t] : t \in DOMAIN conns }

\* blob_data_handler.initialize_blob_writers: the dispatcher takes the
\* registry's dict, and a thread per writer runs its start()
InitializeBlobWriters ==
  LET started == Started(connections) IN
  /\ \A w \in started : StartCalls(w) < MaxStarts
  /\ blob_writers' = connections
  /\ running' = [w \in Writers |-> IF w \in started THEN TRUE ELSE running[w]]
  /\ timer' = [w \in Writers |-> IF w \in started THEN FreeChain(w) ELSE timer[w]]
  /\ pc' = [w \in Writers |->
              IF w \in started THEN [pc[w] EXCEPT ![FreeChain(w)] = "pending"] ELSE pc[w]]
  /\ UNCHANGED <<sent, queueVars, mainVars,
                 faults, connections, reply, buffer, flushLocals, calls, blobs, nextId,
                 returned, late, stopHistory>>

\* a plausible slip: an unknown tenant is passed over in silence
DispatchMissIgnored(tenant_id) == "None"

\* dispatch_blob_message, line 24: raise KeyError(f"No BlobWriter for tenant ...")
DispatchMiss(tenant_id) == "KeyError"

\* blob_data_handler.dispatch_blob_message
DispatchBlobMessage(tenant_id) ==
  /\ nextId <= MaxEnq
  /\ \E f \in SpecContents :
       IF tenant_id \in DOMAIN blob_writers
       THEN /\ MessageHandler(blob_writers[tenant_id], Item(nextId, f[1], f[2], f[3]))
            /\ nextId' = nextId + 1
            /\ sent' = [sent EXCEPT ![nextId] = tenant_id]
            /\ reply' = [op |-> "dispatch", tenant |-> tenant_id, result |-> "None"]
       ELSE /\ reply' = [op |-> "dispatch", tenant |-> tenant_id,
                           result |-> DispatchMiss(tenant_id)]
            /\ UNCHANGED <<buffer, late, nextId, sent>>
  /\ UNCHANGED <<queueVars, mainVars,
                 faults, connections, blob_writers, running, timer, pc, flushLocals, calls,
                 blobs, returned, stopHistory>>

\* TenantBlobManager.get_connection
GetConnection(tenant_id) ==
  /\ reply' = [op |-> "lookup", tenant |-> tenant_id,
               result |-> IF tenant_id \in DOMAIN connections
                          THEN connections[tenant_id] ELSE "ValueError"]
  /\ UNCHANGED <<sent, queueVars, mainVars,
                 faults, connections, blob_writers, buffer, running, timer, pc, flushLocals,
                 calls, blobs, nextId, returned, late, stopHistory>>

\* MicroConsumer.stop_all: no timer and no consumer of its own to stop, then
\* self.blob.stop() on an attribute that is never set (line 70); it is the
\* only stop-all of the service and reaches no BlobWriter
StopAll ==
  /\ reply' = [op |-> "stop_all", tenant |-> "none", result |-> "AttributeError"]
  /\ UNCHANGED <<sent, queueVars, mainVars,
                 faults, connections, blob_writers, buffer, running, timer, pc, flushLocals,
                 calls, blobs, nextId, returned, late, stopHistory>>

\* main, lines 112-114 and 132-134: KeyboardInterrupt ends the loop and main
\* returns; nothing is called on the writers
MainInterrupted ==
  /\ reply' = [op |-> "shutdown", tenant |-> "none", result |-> "None"]
  /\ UNCHANGED <<sent, queueVars, mainVars,
                 faults, connections, blob_writers, buffer, running, timer, pc, flushLocals,
                 calls, blobs, nextId, returned, late, stopHistory>>

(* ----------------------- main and process_message --------------------- *)
\* a field that the message does not have
FieldAbsent == "<absent>"
\* the message has no data
NoData == <<>>
\* a timestamp that is no date
TSGarbage == <<"n", "o", "w">>
Digits == {"0", "1", "2", "3", "4", "5", "6", "7", "8", "9"}

\* the ISO 8601 texts: YYYY-MM-DD, alone or followed by 'T' or a blank and HH:MM:SS
IsoDate(s) ==
  /\ Len(s) = 10 /\ s[5] = "-" /\ s[8] = "-"
  /\ \A i \in {1, 2, 3, 4, 6, 7, 9, 10} : s[i] \in Digits
IsoClock(s) ==
  /\ Len(s) = 8 /\ s[3] = ":" /\ s[6] = ":"
  /\ \A i \in {1, 2, 4, 5, 7, 8} : s[i] \in Digits

\* arrow.get(timestamp) raises ParserError (a ValueError) for a text that is
\* no date
ArrowGetRaises(timestamp) ==
  ~ \/ IsoDate(timestamp)
    \/ /\ Len(timestamp) = 19 /\ timestamp[11] \in {"T", " "}
       /\ IsoDate(SubSeq(timestamp, 1, 10)) /\ IsoClock(SubSeq(timestamp, 12, 19))

\* the messages the reader hands to process_message: each required field
\* present or not, the timestamp a date or not, data present or not
Messages ==
  [tenant_id : TenantIds \cup {FieldAbsent}, asset_id : {"a1", FieldAbsent},
   timestamp : {TS0800, TSNoT, TSGarbage, KeyAbsent}, data : SpecContents \cup {NoData}]

\* process_message, lines 56-59: raise ValueError("Missing required field")
MissingRequiredField(message) ==
  \/ message.tenant_id = FieldAbsent
  \/ message.asset_id = FieldAbsent
  \/ message.timestamp = KeyAbsent

\* message.get('data') as the record the writer gets; None when there is no data
DataOf(message, id) ==
  IF message.data = NoData THEN Item(id, KeyAbsent, KeyAbsent, 4)
  ELSE Item(id, message.data[1], message.data[2], message.data[3])

\* a plausible slip: True is returned whatever the dispatch did
AfterDispatchAlwaysTrue(outcome) == "True"

\* process_message, lines 74-75 and 80-82: True after dispatch_blob_message
\* has returned, False when it raised KeyError
AfterDispatch(outcome) == IF outcome = "None" THEN "True" ELSE "False"

\* main.process_message, called by the consumer thread of the reader
ProcessMessage(message) ==
  /\ reader.consuming
  /\ nextId <= MaxEnq
  /\ IF MissingRequiredField(message) \/ ArrowGetRaises(message.timestamp)
     THEN /\ reply' = [op |-> "process", tenant |-> message.tenant_id, result |-> "False",
                       message |-> message]
          /\ UNCHANGED <<buffer, late, nextId, sent>>
     ELSE IF message.tenant_id \in DOMAIN blob_writers
     THEN /\ MessageHandler(blob_writers[message.tenant_id], DataOf(message, nextId))
          /\ nextId' = nextId + 1
          /\ sent' = [sent EXCEPT ![nextId] = message.tenant_id]
          /\ reply' = [op |-> "process", tenant |-> message.tenant_id,
                       result |-> AfterDispatch("None"), message |-> message]
     ELSE /\ reply' = [op |-> "process", tenant |-> message.tenant_id,
                       result |-> AfterDispatch(DispatchMiss(message.tenant_id)),
                       message |-> message]
          /\ UNCHANGED <<buffer, late, nextId, sent>>
  /\ UNCHANGED <<queueVars, mainVars,
                 faults, connections, blob_writers, running, timer, pc, flushLocals, calls,
                 blobs, returned, stopHistory>>

\* FD_MAX_RETRIES, default '5'
max_retries == 5

\* main, lines 115-139: an exception other than KeyboardInterrupt is counted;
\* past max_retries the failsafe loop, else the sleep before the next round
MainFailed ==
  /\ retry_count' = retry_count + 1
  /\ main_pc' = IF retry_count + 1 > max_retries THEN "failsafe" ELSE "retry_sleep"

\* main, lines 100-108: a round of the loop begins; the reader is constructed
\* if there is none (the constructor may raise)
MainLoop ==
  /\ main_pc = "loop"
  /\ \E ok \in (IF reader.made THEN {TRUE} ELSE BOOLEAN) :
       IF ok
       THEN /\ reader' = [reader EXCEPT !.made = TRUE]
            /\ main_pc' = "rf_start"
            /\ UNCHANGED retry_count
       ELSE MainFailed /\ UNCHANGED reader
  /\ UNCHANGED <<sent, queueVars, interrupts, vars_writers>>

\* KafkaReader.run_forever, line 387: start() creates a consumer (which may
\* raise) and a consumer thread, whose loop runs while stop_event is not set
ReaderStart ==
  /\ main_pc = "rf_start"
  /\ \E ok \in BOOLEAN :
       IF ok
       THEN /\ reader' = [reader EXCEPT !.starts = @ + 1,
                                       !.consuming = ~reader.stop_event]
            /\ main_pc' = "rf_block"
            /\ UNCHANGED retry_count
       ELSE MainFailed /\ UNCHANGED reader
  /\ UNCHANGED <<sent, queueVars, interrupts, vars_writers>>

\* main, line 139: time.sleep(retry_delay) is over
RetrySleepOver ==
  /\ main_pc = "retry_sleep"
  /\ main_pc' = "loop"
  /\ UNCHANGED <<sent, queueVars, retry_count, reader, interrupts, vars_writers>>

\* KafkaReader.stop: stop_event is set and the consumer thread is joined
ReaderStop == [reader EXCEPT !.stop_event = TRUE, !.consuming = FALSE]

\* a KeyboardInterrupt reaches the main thread. In the try of main (lines
\* 100-111, outside run_forever's own try) it ends the loop and main returns;
\* in the sleep loop of run_forever (lines 396-402) it is caught there,
\* stop() is called and run_forever returns normally, so main goes on to
\* lines 125 and 138-139; in time.sleep(retry_delay) it leaves main as an
\* exception (caught at line 144); in the failsafe loop main returns.
KeyboardInterrupt ==
  /\ interrupts < MaxInterrupts
  /\ interrupts' = interrupts + 1
  /\ main_pc \in {"loop", "rf_start", "rf_block", "retry_sleep", "failsafe"}
  /\ IF main_pc = "rf_block"
     THEN /\ reader' = ReaderStop
          /\ main_pc' = IF retry_count > max_retries THEN "failsafe" ELSE "retry_sleep"
     ELSE /\ main_pc' = IF main_pc = "retry_sleep" THEN "interrupted" ELSE "returned"
          /\ UNCHANGED reader
  /\ UNCHANGED <<sent, queueVars, retry_count, vars_writers>>

(* -------------------------- MicroQueueConsumer ------------------------- *)
\* a plausible slip: the list is used without the lock
LockNotTaken(lock) == TRUE

\* threading.Lock: 'with self.lock' waits until nobody holds the lock
LockAvailable(lock) == lock = NoHolder

\* copy.deepcopy(self.buffer): a new list with equal messages
DeepCopy(list) == [i \in 1..Len(list) |-> list[i]]

\* thread t calls appendBuffer(message)
AppendBufferCall(t) ==
  /\ q_pc[t] = "idle"
  /\ q_next <= MaxEnq
  /\ q_message' = [q_message EXCEPT ![t] = q_next]
  /\ q_next' = q_next + 1
  /\ q_pc' = [q_pc EXCEPT ![t] = "ab_lock"]
  /\ UNCHANGED <<q_buffer, q_lock, q_tmp, q_returned, q_appended>>
  /\ UNCHANGED <<sent, mainVars, vars_writers>>

\* thread t calls clear_buffer()
ClearBufferCall(t) ==
  /\ q_pc[t] = "idle"
  /\ Len(q_returned) + Cardinality({ u \in QThreads : q_pc[u] \in {"cl_lock", "cl_copy",
                                        "cl_assign", "cl_return"} }) < MaxClears
  /\ q_tmp' = [q_tmp EXCEPT ![t] = <<>>]
  /\ q_pc' = [q_pc EXCEPT ![t] = "cl_lock"]
  /\ UNCHANGED <<q_buffer, q_lock, q_message, q_returned, q_appended, q_next>>
  /\ UNCHANGED <<sent, mainVars, vars_writers>>

\* lines 59 and 63: with self.lock
LockAcquire(t) ==
  /\ q_pc[t] \in {"ab_lock", "cl_lock"}
  /\ LockAvailable(q_lock)
  /\ q_lock' = t
  /\ q_pc' = [q_pc EXCEPT ![t] = IF q_pc[t] = "ab_lock" THEN "ab_append" ELSE "cl_copy"]
  /\ UNCHANGED <<q_buffer, q_message, q_tmp, q_returned, q_appended, q_next>>
  /\ UNCHANGED <<sent, mainVars, vars_writers>>

\* line 60: self.buffer.append(message)
AppendBufferAppend(t) ==
  /\ q_pc[t] = "ab_append"
  /\ q_buffer' = Append(q_buffer, q_message[t])
  /\ q_appended' = Append(q_appended, q_message[t])
  /\ q_pc' = [q_pc EXCEPT ![t] = "ab_unlock"]
  /\ UNCHANGED <<q_lock, q_message, q_tmp, q_returned, q_next>>
  /\ UNCHANGED <<sent, mainVars, vars_writers>>

\* the end of the with block of appendBuffer: the lock is released
AppendBufferReturn(t) ==
  /\ q_pc[t] = "ab_unlock"
  /\ q_lock' = IF q_lock = t THEN NoHolder ELSE q_lock
  /\ q_pc' = [q_pc EXCEPT ![t] = "idle"]
  /\ UNCHANGED <<q_buffer, q_message, q_tmp, q_returned, q_appended, q_next>>
  /\ UNCHANGED <<sent, mainVars, vars_writers>>

\* line 64: tmp_buffer = copy.deepcopy(self.buffer)
ClearBufferCopy(t) ==
  /\ q_pc[t] = "cl_copy"
  /\ q_tmp' = [q_tmp EXCEPT ![t] = DeepCopy(q_buffer)]
  /\ q_pc' = [q_pc EXCEPT ![t] = "cl_assign"]
  /\ UNCHANGED <<q_buffer, q_lock, q_message, q_returned, q_appended, q_next>>
  /\ UNCHANGED <<sent, mainVars, vars_writers>>

\* line 65: self.buffer = []
ClearBufferAssign(t) ==
  /\ q_pc[t] = "cl_assign"
  /\ q_buffer' = <<>>
  /\ q_pc' = [q_pc EXCEPT ![t] = "cl_return"]
  /\ UNCHANGED <<q_lock, q_message, q_tmp, q_returned, q_appended, q_next>>
  /\ UNCHANGED <<sent, mainVars, vars_writers>>

\* line 66: return tmp_buffer, which leaves the with block and releases the lock
ClearBufferReturn(t) ==
  /\ q_pc[t] = "cl_return"
  /\ q_lock' = IF q_lock = t THEN NoHolder ELSE q_lock
  /\ q_returned' = Append(q_returned, q_tmp[t])
  /\ q_pc' = [q_pc EXCEPT ![t] = "idle"]
  /\ UNCHANGED <<q_buffer, q_message, q_tmp, q_appended, q_next>>
  /\ UNCHANGED <<sent, mainVars, vars_writers>>

\* one step of a thread in the MicroQueueConsumer
QueueStep(t) ==
  \/ AppendBufferCall(t)
  \/ ClearBufferCall(t)
  \/ LockAcquire(t)
  \/ AppendBufferAppend(t)
  \/ AppendBufferReturn(t)
  \/ ClearBufferCopy(t)
  \/ ClearBufferAssign(t)
  \/ ClearBufferReturn(t)

(* --------------------------- specifications ---------------------------- *)
NoBlobs == [c \in Containers |-> <<>>]

\* MicroQueueConsumer.__init__ (lines 39-40), no thread in it yet
InitQueue ==
  /\ q_buffer = <<>>
  /\ q_lock = NoHolder
  /\ q_pc = [t \in QThreads |-> "idle"]
  /\ q_message = [t \in QThreads |-> 0]
  /\ q_tmp = [t \in QThreads |-> <<>>]
  /\ q_returned = <<>>
  /\ q_appended = <<>>
  /\ q_next = 1

\* main(), lines 94-97: before the first round of its loop
InitMain ==
  /\ main_pc = "loop"
  /\ retry_count = 0
  /\ reader = NoReader
  /\ interrupts = 0
  /\ sent = [id \in 1..MaxEnq |-> NoTenant]

\* a writer as BlobWriter.__init__ leaves it, no thread in it yet
InitWriters ==
  /\ running = [w \in Writers |-> FALSE]
  /\ timer = [w \in Writers |-> NoTimer]
  /\ pc = [w \in Writers |-> [p \in Procs |-> IF p = Stopper THEN "idle" ELSE "unused"]]
  /\ tmp_buffer = [w \in Writers |-> [p \in Procs |-> <<>>]]
  /\ blob_data = [w \in Writers |-> [p \in Procs |-> <<>>]]
  /\ gi = [w \in Writers |-> [p \in Procs |-> 0]]
  /\ pkt = [w \in Writers |-> [p \in Procs |-> 0]]
  /\ calls = [w \in Writers |-> [p \in Procs |-> <<>>]]
  /\ returned = [w \in Writers |-> <<>>]
  /\ stops = [w \in Writers |-> 0]
  /\ nflush = [w \in Writers |-> 0]
  /\ late = [w \in Writers |-> {}]
  /\ stopPre = [w \in Writers |-> [running |-> FALSE, n |-> 0, blobs |-> <<>>]]
  /\ faults = 0
  /\ drainFrom = [w \in Writers |-> [p \in Procs |-> 0]]

\* the records one flush is tried on: three keys, three sizes, two malformed
FlushContents ==
  { <<HB, TS0800, SizeSmall>>, <<HB, TS0830, SizeHalf>>, <<HB, TS0915, SizeSmall>>,
    <<FAULT, TS0800, SizeHuge>>, <<KeyAbsent, TS0800, SizeSmall>>,
    <<HB, TSNoT, SizeSmall>> }

FlushBuffers ==
  UNION { { [i \in 1..n |-> Item(i, f[i][1], f[i][2], f[i][3])] :
              f \in [1..n -> FlushContents] } : n \in 0..MaxSnap }

\* what an earlier run of the service left in the container: the blob of the
\* heartbeats of 08h with one line
EarlierBlob ==
  FileName([type |-> HB, date |-> Day1Compact, time |-> <<"0","8">>])
    :> DataToAppend(<<Item(0, HB, TS0800, SizeSmall)>>)

\* SpecFlush: one stop() of the writer of tenant t1, alone, on a buffer that
\* dispatch has filled; the container is empty or holds an earlier blob.
InitFlush ==
  /\ InitWriters
  /\ InitQueue
  /\ InitMain
  /\ connections = ("t1" :> "w1")
  /\ blob_writers = ("t1" :> "w1")
  /\ reply = NoReply
  /\ \E b \in FlushBuffers : buffer = [w \in Writers |-> IF w = "w1" THEN b ELSE <<>>]
  /\ nextId = Len(buffer["w1"]) + 1
  /\ blobs \in { NoBlobs, [NoBlobs EXCEPT !["c1"] = EarlierBlob] }

NextFlush == StopBegin("w1") \/ FlushStep("w1", Stopper)

\* types and timestamps with a '-' outside the date: the type "hb-20240101"
\* with the timestamp "08T30:00", and the type "hb" with the timestamp
\* "2024-01-01T08-30:00"
HBDay1 == HB \o <<"-">> \o Day1Compact
TSShort == <<"0", "8", "T", "3", "0", ":", "0", "0">>
TSDashed == Day1 \o <<"T", "0", "8", "-", "3", "0", ":", "0", "0">>

\* the records the keys of a flush are tried on: well formed, of any text
KeyContents ==
  { <<HB, TS0800, SizeSmall>>, <<HB, TSDashed, SizeSmall>>, <<HBDay1, TSShort, SizeSmall>> }

KeyBuffers ==
  UNION { { [i \in 1..n |-> Item(i, f[i][1], f[i][2], f[i][3])] :
              f \in [1..n -> KeyContents] } : n \in 0..MaxSnap }

\* SpecKeys: one stop() of the writer of tenant t1 on a buffer of well-formed
\* records whose types and timestamps are any text; the container is empty.
InitKeys ==
  /\ InitWriters
  /\ InitQueue
  /\ InitMain
  /\ connections = ("t1" :> "w1")
  /\ blob_writers = ("t1" :> "w1")
  /\ reply = NoReply
  /\ \E b \in KeyBuffers : buffer = [w \in Writers |-> IF w = "w1" THEN b ELSE <<>>]
  /\ nextId = Len(buffer["w1"]) + 1
  /\ blobs = NoBlobs

SpecKeys == InitKeys /\ [][NextFlush]_vars

SpecFlush == InitFlush /\ [][NextFlush]_vars

\* Spec: the writer of tenant t1 after load_blob_connections and
\* initialize_blob_writers' assignment, with its producers, its start() and
\* stop() callers and its timer threads.
Init ==
  /\ InitWriters
  /\ InitQueue
  /\ InitMain
  /\ connections = ("t1" :> "w1")
  /\ blob_writers = ("t1" :> "w1")
  /\ reply = NoReply
  /\ nextId = 1
  /\ buffer = [w \in Writers |-> <<>>]
  /\ blobs = NoBlobs

Next ==
  \/ Enqueue("w1")
  \/ Start("w1")
  \/ StopBegin("w1")
  \/ \E c \in Chains : TimerFire("w1", c) \/ RunPeriodically("w1", c) \/ RunPeriodicallyWrite("w1", c)
                      \/ Reschedule("w1", c)
  \/ \E p \in Procs : FlushStep("w1", p)

Spec == Init /\ [][Next]_vars

\* SpecLive: Spec with the timer threads scheduled fairly: a Timer that is due
\* fires, and a thread that can take its next step takes it. Producers and
\* the callers of start() and stop() are under no such obligation.
TimerThreads ==
  \E c \in Chains :
    TimerFire("w1", c) \/ RunPeriodically("w1", c) \/ RunPeriodicallyWrite("w1", c)
                      \/ Reschedule("w1", c) \/ FlushStep("w1", c)

SpecLive == Init /\ [][Next]_vars /\ WF_vars(TimerThreads)

\* SpecStarts: the writer of tenant t1 with producers, start() called up to
\* MaxChains times and never stopped, and the timer threads that this begins.
NextStarts ==
  \/ Enqueue("w1")
  \/ StartWithin("w1", MaxChains)
  \/ \E c \in Chains : TimerFire("w1", c) \/ RunPeriodically("w1", c) \/ RunPeriodicallyWrite("w1", c)
                      \/ Reschedule("w1", c) \/ FlushStep("w1", c)

SpecStarts == Init /\ [][NextStarts]_vars

\* SpecMain: the main thread in main() and run_forever(), the errors and the
\* KeyboardInterrupts it may meet, and the consumer thread of the reader
\* calling process_message; tenant t1 is registered.
NextMain ==
  \/ MainLoop
  \/ ReaderStart
  \/ RetrySleepOver
  \/ KeyboardInterrupt
  \/ \E message \in Messages : ProcessMessage(message)

SpecMain == Init /\ [][NextMain]_vars

\* SpecQueue: the threads that call appendBuffer and clear_buffer of one
\* MicroQueueConsumer, in any interleaving.
NextQueue == \E t \in QThreads : QueueStep(t)

SpecQueue == Init /\ [][NextQueue]_vars

\* SpecRegistry: the module state after import (no tenant registered), then
\* any sequence of registry loads, starts of the writers, lookups and
\* dispatches, with the timer threads of the started writers.
InitRegistry ==
  /\ InitWriters
  /\ InitQueue
  /\ InitMain
  /\ connections = <<>>
  /\ blob_writers = <<>>
  /\ reply = NoReply
  /\ nextId = 1
  /\ buffer = [w \in Writers |-> <<>>]
  /\ blobs = NoBlobs

NextRegistry ==
  \/ \E conns \in Configs : InitializeConnections(conns)
  \/ InitializeBlobWriters
  \/ \E t \in TenantIds : DispatchBlobMessage(t) \/ GetConnection(t)
  \/ StopAll
  \/ MainInterrupted
  \/ \E w \in Writers, c \in Chains :
        \/ TimerFire(w, c) \/ RunPeriodically(w, c) \/ RunPeriodicallyWrite(w, c)
        \/ Reschedule(w, c) \/ FlushStep(w, c)

SpecRegistry == InitRegistry /\ [][NextRegistry]_vars

(* ------------------------- helpers of the claims ----------------------- *)
Range(q) == { q[i] : i \in DOMAIN q }
Occurrences(id, q) == Cardinality({ i \in DOMAIN q : q[i].id = id })

RECURSIVE SumOver(_, _)
SumOver(f, S) ==
  IF S = {} THEN 0
  ELSE LET x == CHOOSE y \in S : TRUE IN f[x] + SumOver(f, S \ {x})

\* the threads of writer w that are inside clear_buffer
Draining(w) == { p \in Procs : pc[w][p] \in {"cb_test", "cb_get"} }

\* in how many places record id is: the buffers, the snapshots being drained
\* and the snapshots that clear_buffer has returned
Copies(id) ==
  SumOver([w \in Writers |->
      Occurrences(id, buffer[w])
    + SumOver([p \in Procs |-> Occurrences(id, tmp_buffer[w][p])], Draining(w))
    + SumOver([k \in DOMAIN returned[w] |-> Occurrences(id, returned[w][k])],
              DOMAIN returned[w])], Writers)

\* date and hour of a timestamp "YYYY-MM-DDTHH:MM:SS", read off by position
DateOf(ts) == <<ts[1], ts[2], ts[3], ts[4], ts[6], ts[7], ts[9], ts[10]>>
HourOf(ts) == <<ts[12], ts[13]>>
Triple(item) == <<item.type, DateOf(item.timestamp), HourOf(item.timestamp)>>
TargetOf(item) ==
  item.type \o <<".">> \o DateOf(item.timestamp) \o <<".">> \o HourOf(item.timestamp)
            \o <<".", "f", "d">>

WellFormed(item) == ~ItemRaises(item)
FlushOver(w, p) == pc[w][p] \in {"returned", "raised", "rp_resched", "died"}
InGroups(w, p) == pc[w][p] \in {"cab_list", "cab_create", "adb_list", "adb_create", "adb_append"}
AppendsTo(cs, name) == SelectSeq(cs, LAMBDA c : c.op = "append" /\ c.name = name)
Failed(cs) == { i \in DOMAIN cs : ~cs[i].ok }

\* the chunks of packet_size records that a group falls into
Chunks(data, packet_size) ==
  [k \in 1..((Len(data) + packet_size - 1) \div packet_size) |->
     SubSeq(data, (k - 1) * packet_size + 1, Min(k * packet_size, Len(data)))]

\* the lines of the blob name after the calls cs on a container that held base:
\* a successful create leaves it empty, a successful append adds its packet
RECURSIVE Written(_, _, _)
Written(base, cs, name) ==
  IF cs = <<>> THEN (IF name \in DOMAIN base THEN base[name] ELSE <<>>)
  ELSE LET c == cs[Len(cs)]
           before == Written(base, SubSeq(cs, 1, Len(cs) - 1), name)
       IN  IF c.name = name /\ c.ok /\ c.op = "append"
           THEN before \o DataToAppend(c.data)
           ELSE IF c.name = name /\ c.ok /\ c.op = "create" THEN <<>>
           ELSE before

(* ------------------------------- claims -------------------------------- *)
\* C1: whatever the interleaving of enqueues and drains, every record that was
\* enqueued is in exactly one place: still in the buffer, or in exactly one
\* snapshot (one being drained or one that clear_buffer returned); no record is
\* in two snapshots and none vanishes in the drain.
C1_ExactlyOneSnapshot == \A id \in 1..(nextId - 1) : Copies(id) = 1

\* C1 witness: the timer's flush and stop()'s flush of the same writer each
\* returned a non-empty snapshot.
C1_Witness ==
  /\ Len(returned["w1"]) = 2
  /\ tmp_buffer["w1"][Stopper] # <<>>
  /\ tmp_buffer["w1"][1] # <<>>
  /\ pc["w1"][Stopper] = "returned"

StopReturns(w) == pc[w][Stopper] # "returned" /\ pc'[w][Stopper] = "returned"
StopDrainEnds(w) == pc[w][Stopper] = "cb_test" /\ pc'[w][Stopper] = "wb_process"
StopOnRunningNonEmpty(w) == stopPre[w].running /\ stopPre[w].n > 0
StopReturnsOnRunningNonEmpty(w) ==
  StopReturns(w) /\ stopPre'[w].running /\ stopPre'[w].n > 0

\* C2 as stated: a stop() called on a running writer with a non-empty buffer
\* has made exactly one flush when it returns, and the buffer is then empty.
C2_StopLeavesBufferEmpty ==
  [][\A w \in Writers : StopReturnsOnRunningNonEmpty(w)
        => nflush'[w] = 1 /\ buffer'[w] = <<>>]_vars

\* C2 amended: such a stop() makes exactly one flush of its own, the buffer is
\* empty at the moment the drain of that flush ends, and when stop() returns
\* the buffer holds only records that were enqueued after that moment.
C2_StopDrainsOnce ==
  [][\A w \in Writers :
        /\ StopDrainEnds(w) => buffer[w] = <<>>
        /\ StopReturnsOnRunningNonEmpty(w)
             => /\ nflush'[w] = 1
                /\ \A i \in DOMAIN buffer'[w] : buffer'[w][i].id \in late'[w]]_vars

\* C2 witness: stop() on a running writer with a record in its buffer has
\* returned, its flush has drained that record, the buffer is empty.
C2_Witness ==
  /\ pc["w1"][Stopper] = "returned"
  /\ StopOnRunningNonEmpty("w1")
  /\ tmp_buffer["w1"][Stopper] # <<>>
  /\ buffer["w1"] = <<>>

\* C3: a flush whose snapshot holds a malformed record is not aborted, and
\* every well-formed record of that snapshot is in an append of the flush.
C3_MalformedRecordSkipped ==
  \A w \in Writers, p \in Procs :
    FlushOver(w, p) /\ (\E i \in DOMAIN tmp_buffer[w][p] : ~WellFormed(tmp_buffer[w][p][i]))
      => /\ pc[w][p] \notin {"raised", "died"}
         /\ Failed(calls[w][p]) = {}
              => \A i \in DOMAIN tmp_buffer[w][p] :
                   WellFormed(tmp_buffer[w][p][i])
                     => \E j \in DOMAIN calls[w][p] :
                          /\ calls[w][p][j].op = "append"
                          /\ tmp_buffer[w][p][i] \in Range(calls[w][p][j].data)

\* C4: the packet size of a group is max(1, floor(ceiling / size of the first
\* record)), never zero.
C4_PacketSizeNeverZero ==
  \A w \in Writers, p \in Procs :
    pc[w][p] = "adb_append"
      => LET q == max_packet_size_bytes \div FileData(w, p)[1].size
         IN  PacketSize(FileData(w, p)) = (IF q < 1 THEN 1 ELSE q)

\* C5: when a flush is over, every group of the snapshot has been taken up,
\* and the appends issued for a group whose loop over the packets began are
\* all its packets in order, whichever of them failed; each blob holds what it
\* held when the flush began and what the successful appends put there.
C5_FailedAppendDoesNotStopFlush ==
  \A w \in Writers :
    /\ pc[w][Stopper] # "idle"
         => \A name \in DOMAIN blobs[ContainerOf(w)] :
              blobs[ContainerOf(w)][name]
                = Written(stopPre[w].blobs, calls[w][Stopper], name)
    /\ pc[w][Stopper] = "returned"
         => \A g \in DOMAIN blob_data[w][Stopper] :
              LET k == blob_data[w][Stopper][g]
                  data == filter_by_type_and_date(tmp_buffer[w][Stopper],
                                                  k.type, k.date, k.time)
                  appends == AppendsTo(calls[w][Stopper], FileName(k))
              IN  /\ \E j \in DOMAIN calls[w][Stopper] :
                        calls[w][Stopper][j].name = FileName(k)
                  /\ appends # <<>>
                       => [j \in DOMAIN appends |-> appends[j].data]
                            = Chunks(data, PacketSize(data))

\* C5 witness: a flush is over in which an append failed and was followed by
\* the append of the next packet of the same group and by an append of a
\* later group.
C5_Witness ==
  /\ pc["w1"][Stopper] = "returned"
  /\ \E i, j, l \in DOMAIN calls["w1"][Stopper] :
       LET cs == calls["w1"][Stopper] IN
       /\ i < j /\ j < l
       /\ cs[i].op = "append" /\ ~cs[i].ok
       /\ cs[j].op = "append" /\ cs[j].name = cs[i].name
       /\ cs[l].op = "append" /\ cs[l].name # cs[i].name

\* C6: a stop() whose final flush met a storage failure does not end the way
\* a clean stop() ends (a plain return).
C6_StopSurfacesStorageFailure ==
  \A w \in Writers : pc[w][Stopper] = "returned" => Failed(calls[w][Stopper]) = {}

IsDispatch == reply'.op = "dispatch" /\ (reply' # reply \/ nextId' # nextId)
IsLookup == reply'.op = "lookup" /\ reply' # reply

\* C7: a dispatch with a tenant id that the dispatcher's mapping does not
\* hold, and a lookup with a tenant id that the registry does not hold, end
\* in an error, and change no buffer, no writer and neither mapping.
C7_UnregisteredTenantFails ==
  [][/\ IsDispatch /\ reply'.tenant \notin DOMAIN blob_writers
          => /\ reply'.result = "KeyError"
             /\ UNCHANGED <<connections, blob_writers, buffer, running, timer, pc,
                            flushLocals, calls, blobs, nextId, returned>>
     /\ IsLookup /\ reply'.tenant \notin DOMAIN connections
          => /\ reply'.result = "ValueError"
             /\ UNCHANGED <<connections, blob_writers, buffer, running, timer, pc,
                            flushLocals, calls, blobs, nextId, returned>>]_vars

\* C7 witness: a dispatch with the unknown tenant has failed while both
\* writers are registered and a buffer holds a record.
C7_Witness ==
  /\ reply = [op |-> "dispatch", tenant |-> "tx", result |-> "KeyError"]
  /\ DOMAIN blob_writers = {"t1", "t2"}
  /\ buffer["w1"] # <<>>

\* C8: a dispatch with a tenant id of the dispatcher's mapping puts the record
\* at the end of the buffer of that tenant's writer and changes no other
\* buffer.
C8_DispatchAppendsToOwnBuffer ==
  [][IsDispatch /\ reply'.tenant \in DOMAIN blob_writers
       => /\ reply'.result = "None"
          /\ \E f \in SpecContents :
               buffer' = [buffer EXCEPT ![blob_writers[reply'.tenant]] =
                            Append(@, Item(nextId, f[1], f[2], f[3]))]]_vars

\* C8 witness: the second record dispatched to tenant t1 stands behind the
\* first in the buffer of t1's writer.
C8_Witness ==
  /\ reply = [op |-> "dispatch", tenant |-> "t1", result |-> "None"]
  /\ Len(buffer["w1"]) = 2
  /\ buffer["w1"][1].id = 1 /\ buffer["w1"][2].id = 2
  /\ buffer["w2"] = <<>>

\* C9: in a flush, the group that is being written holds every record of the
\* snapshot that has the (type, date, hour) of one of its records, wherever
\* the records stand in the buffer, and two records of one (type, date, hour)
\* are never appended to different targets.
C9_SameKeySameGroup ==
  \A w \in Writers, p \in Procs :
    /\ pc[w][p] = "adb_append"
         => \A i, j \in DOMAIN tmp_buffer[w][p] :
              /\ tmp_buffer[w][p][i] \in Range(FileData(w, p))
              /\ Triple(tmp_buffer[w][p][j]) = Triple(tmp_buffer[w][p][i])
              => tmp_buffer[w][p][j] \in Range(FileData(w, p))
    /\ \A a, b \in DOMAIN calls[w][p] :
         calls[w][p][a].op = "append" /\ calls[w][p][b].op = "append"
           => \A r1 \in Range(calls[w][p][a].data), r2 \in Range(calls[w][p][b].data) :
                Triple(r1) = Triple(r2) => calls[w][p][a].name = calls[w][p][b].name

\* C9 witness: the group being written holds the first and the third record
\* of the snapshot, the second has another key.
C9_Witness ==
  /\ pc["w1"][Stopper] = "adb_append"
  /\ Len(tmp_buffer["w1"][Stopper]) = 3
  /\ LET t == tmp_buffer["w1"][Stopper]
     IN  /\ Triple(t[1]) = Triple(t[3]) /\ Triple(t[1]) # Triple(t[2])
         /\ FileData("w1", Stopper) = <<t[1], t[3]>>

\* C10: the target named in a storage call of a flush is
\* "{type}.{YYYYMMDD}.{HH}.fd" of the records it is issued for, and of
\* nothing else.
C10_TargetNameFromKey ==
  \A w \in Writers, p \in Procs :
    /\ InGroups(w, p) => GroupFile(w, p) = TargetOf(FileData(w, p)[1])
    /\ \A j \in DOMAIN calls[w][p] :
         /\ \E i \in DOMAIN tmp_buffer[w][p] : calls[w][p][j].name = TargetOf(tmp_buffer[w][p][i])
         /\ \A r \in Range(calls[w][p][j].data) : calls[w][p][j].name = TargetOf(r)

\* C10 witness: a flush has appended to hb.20240101.08.fd and to
\* hb.20240101.09.fd, the first of which was there before the flush.
C10_Witness ==
  /\ pc["w1"][Stopper] = "returned"
  /\ \E a, b \in DOMAIN calls["w1"][Stopper] :
       LET cs == calls["w1"][Stopper] IN
       /\ cs[a].op = "append" /\ cs[a].ok
       /\ cs[a].name = HB \o <<".">> \o Day1Compact \o <<".", "0", "8", ".", "f", "d">>
       /\ cs[b].op = "append" /\ cs[b].ok
       /\ cs[b].name = HB \o <<".">> \o Day1Compact \o <<".", "0", "9", ".", "f", "d">>
       /\ \A j \in DOMAIN cs : cs[j].name = cs[a].name => cs[j].op # "create"

\* the snapshot of stop()'s flush, and the storage calls of that flush
Snapshot(w) == tmp_buffer[w][Stopper]
StopCalls(w) == calls[w][Stopper]
StopFlushClean(w) ==
  /\ pc[w][Stopper] = "returned"
  /\ \A i \in DOMAIN Snapshot(w) : WellFormed(Snapshot(w)[i])
  /\ Failed(StopCalls(w)) = {}

\* what the blob name held when stop() was called
Before(w, name) ==
  IF name \in DOMAIN stopPre[w].blobs THEN stopPre[w].blobs[name] ELSE <<>>

\* n records as n lines of text, each ended by a newline
Lines(q) == [i \in 1..Len(q) |-> [line |-> q[i], newline |-> TRUE]]
OnePacket(q) ==
  SumOver([i \in DOMAIN q |-> q[i].size + 1], DOMAIN q) <= max_packet_size_bytes
OneKey(q) == q # <<>> /\ \A i \in DOMAIN q : Triple(q[i]) = Triple(q[1])

\* C11: a flush (no storage call of it failing) of n >= 1 records of one type
\* and one hour that fit in one packet names one target only in its storage
\* calls, type.YYYYMMDD.HH.fd; that blob gains exactly the n records in buffer
\* order, one per line, each line ended by a newline, and no other blob of the
\* container changes.
C11_OneTargetAllLines ==
  \A w \in Writers :
    StopFlushClean(w) /\ OneKey(Snapshot(w)) /\ OnePacket(Snapshot(w))
      => LET name == TargetOf(Snapshot(w)[1])
             held == blobs[ContainerOf(w)]
         IN  /\ { StopCalls(w)[j].name : j \in DOMAIN StopCalls(w) } = {name}
             /\ name \in DOMAIN held
             /\ held[name] = Before(w, name) \o Lines(Snapshot(w))
             /\ \A other \in DOMAIN held \ {name} : held[other] = Before(w, other)

\* C11 witness: three heartbeat records of one hour have been flushed into
\* heartbeat.20240101.08.fd in one append.
C11_Witness ==
  /\ StopFlushClean("w1") /\ OneKey(Snapshot("w1")) /\ OnePacket(Snapshot("w1"))
  /\ Len(Snapshot("w1")) = 3
  /\ Len(AppendsTo(StopCalls("w1"), TargetOf(Snapshot("w1")[1]))) = 1
  /\ Len(blobs["c1"][TargetOf(Snapshot("w1")[1])]) = 3

\* C12: a flush (no storage call of it failing) whose snapshot holds records
\* of k distinct (type, date, hour) keys appends to exactly k distinct targets.
C12_OneTargetPerKey ==
  \A w \in Writers :
    StopFlushClean(w)
      => Cardinality({ StopCalls(w)[j].name :
                         j \in { i \in DOMAIN StopCalls(w) : StopCalls(w)[i].op = "append" } })
           = Cardinality({ Triple(Snapshot(w)[i]) : i \in DOMAIN Snapshot(w) })

\* C13: the payload of every append call is at or under max_packet_size_bytes.
C13_PayloadUnderCeiling ==
  \A w \in Writers, p \in Procs :
    \A j \in DOMAIN calls[w][p] :
      calls[w][p][j].op = "append"
        => PayloadBytes(DataToAppend(calls[w][p][j].data)) <= max_packet_size_bytes

InBuffer(w, id) == \E i \in DOMAIN buffer[w] : buffer[w][i].id = id
StopCalled(w) == stops[w] > 0

\* C14: under fair scheduling of the timer threads, a record that is in the
\* buffer of a started writer on which stop() has not been called is
\* eventually drained (or stop() is called): the timer chain goes on whatever
\* the flushes meet.
C14_EnqueuedWhileRunningIsDrained ==
  \A id \in 1..MaxEnq :
    (InBuffer("w1", id) /\ running["w1"] /\ ~StopCalled("w1"))
      ~> (~InBuffer("w1", id) \/ StopCalled("w1"))

\* C15: once stop() has been called on a writer, no step makes it running
\* again and no step schedules a timer for it.
C15_NoRestartAfterStop ==
  [][\A w \in Writers :
       StopCalled(w)
         => /\ running'[w] => running[w]
            /\ \A c \in Chains : pc'[w][c] = "pending" => pc[w][c] = "pending"]_vars

InStorageCall(w, p) == InGroups(w, p) /\ calls[w][p] # <<>>
NothingDrained(w) == returned[w] = <<>> /\ \A p \in Procs : tmp_buffer[w][p] = <<>>

\* C16: message_handler can be called and completes in every state of the
\* writer, whatever its flushes are doing (in particular between two storage
\* calls of a flush), and as long as nothing has been drained the buffer
\* holds every record enqueued so far, in the order of the enqueues.
C16_EnqueueNeverBlocked ==
  /\ nextId <= MaxEnq => ENABLED Enqueue("w1")
  /\ NothingDrained("w1")
       => /\ Len(buffer["w1"]) = nextId - 1
          /\ \A i \in DOMAIN buffer["w1"] : buffer["w1"][i].id = i

\* C16 witness: a flush is among its storage calls and a record that was
\* enqueued after its drain had ended is in the buffer.
C16_Witness ==
  /\ \E p \in Procs : InStorageCall("w1", p) /\ Len(tmp_buffer["w1"][p]) = 1
  /\ buffer["w1"] # <<>>

Configured == { connections[t] : t \in DOMAIN connections }
StartsWriters == \E w \in Writers, c \in Chains : pc[w][c] = "unused" /\ pc'[w][c] = "pending"
StorageCallOf(w) == calls'[w] # calls[w] /\ \E p \in Procs : Len(calls'[w][p]) > Len(calls[w][p])

\* C17: a writer is built and started without a storage call, so whatever the
\* storage of a tenant does: the start of the writers registers every
\* configured writer with the dispatcher and leaves it running with a timer
\* scheduled; a storage call of one writer, failed or not, changes nothing of
\* another writer, of its container or of the two mappings; and a dispatch to
\* a registered tenant enqueues.
C17_OtherWritersUnaffected ==
  [][/\ StartsWriters
        => /\ blob_writers' = connections
           /\ \A w \in Configured :
                running'[w] /\ \E c \in Chains : pc'[w][c] = "pending" /\ timer'[w] = c
     /\ \A w \in Writers :
          StorageCallOf(w)
            => /\ \A v \in Writers \ {w} :
                    /\ buffer'[v] = buffer[v] /\ running'[v] = running[v]
                    /\ timer'[v] = timer[v] /\ pc'[v] = pc[v]
                    /\ blobs'[ContainerOf(v)] = blobs[ContainerOf(v)]
               /\ connections' = connections /\ blob_writers' = blob_writers
     /\ IsDispatch /\ reply'.tenant \in DOMAIN blob_writers
        => /\ reply'.result = "None"
           /\ Len(buffer'[blob_writers[reply'.tenant]])
                = Len(buffer[blob_writers[reply'.tenant]]) + 1]_vars

\* C17 witness: the flush of the writer of t1 has met a storage failure, and
\* the writer of t2 is running and holds a record dispatched to t2.
C17_Witness ==
  /\ \E c \in Chains : Failed(calls["w1"][c]) # {}
  /\ running["w2"] /\ buffer["w2"] # <<>>
  /\ reply = [op |-> "dispatch", tenant |-> "t2", result |-> "None"]

\* C18: when the stop-all of the service has ended with writers registered,
\* stop() has been called on every one of them and the outcome is a report
\* of the failed tenants, not an exception of the stop-all itself.
C18_StopAllStopsEveryWriter ==
  reply.op = "stop_all" /\ DOMAIN blob_writers # {}
    => /\ \A t \in DOMAIN blob_writers : StopCalled(blob_writers[t])
       /\ reply.result # "AttributeError"

\* C19: when the service has shut down, no writer is running, no timer of a
\* writer is pending, and a buffer still holds records only if stop() was
\* called on its writer.
C19_ShutdownStopsWriters ==
  reply.op = "shutdown"
    => \A w \in Writers :
         /\ ~running[w]
         /\ \A c \in Chains : pc[w][c] # "pending"
         /\ buffer[w] # <<>> => StopCalled(w)

\* C20: once the dispatcher has taken a mapping, lookup and dispatch resolve
\* the same tenant ids, each to the same writer.
C20_LookupAndDispatchAgree ==
  DOMAIN blob_writers # {}
    => /\ DOMAIN blob_writers = DOMAIN connections
       /\ \A t \in DOMAIN blob_writers : blob_writers[t] = connections[t]

\* C21: the registry holds one writer of its own for each tenant entry; and
\* as long as the start of the writers has given the dispatcher no writer,
\* whatever the registry was loaded with: no writer is running, none has a
\* timer, no thread is in a callback or a flush of a writer, and the storage
\* has not been touched.
C21_BuiltNotStarted ==
  /\ \A t, u \in DOMAIN connections : t # u => connections[t] # connections[u]
  /\ DOMAIN blob_writers = {}
       => /\ \A w \in Writers :
               /\ ~running[w] /\ timer[w] = NoTimer
               /\ \A c \in Chains : pc[w][c] = "unused" /\ calls[w][c] = <<>>
          /\ blobs = NoBlobs

\* C21 witness: the registry holds the writers of t1 and t2, the lookup of t1
\* has answered its writer, and the writers have not been started.
C21_Witness ==
  /\ DOMAIN connections = {"t1", "t2"} /\ DOMAIN blob_writers = {}
  /\ reply = [op |-> "lookup", tenant |-> "t1", result |-> "w1"]

\* C22: the snapshot that a drain returns holds no record that was enqueued
\* after the drain had first looked at the buffer.
C22_DrainIsAtomic ==
  [][\A w \in Writers, p \in Procs :
       pc[w][p] = "cb_test" /\ pc'[w][p] = "wb_process"
         => \A i \in DOMAIN tmp_buffer[w][p] : tmp_buffer[w][p][i].id < drainFrom[w][p]]_vars

InFlush(w, p) == pc[w][p] \in {"cb_test", "cb_get", "wb_process"} \/ InGroups(w, p)

\* C23: at no time are two threads inside write_buffer_to_blob of one writer
\* (stated for a writer that start() has not switched on again after a stop()).
C23_OneFlushAtATime ==
  \A w \in Writers : ~running[w] => Cardinality({ p \in Procs : InFlush(w, p) }) <= 1

\* C24: once stop() has returned (and start() has not switched the writer on
\* again), no flush of the writer begins and run_periodically schedules no
\* further timer for it.
C24_NothingAfterStopReturned ==
  [][\A w \in Writers :
       pc[w][Stopper] = "returned" /\ ~running[w]
         => \A c \in Chains :
              /\ ~(pc[w][c] = "rp_flush" /\ pc'[w][c] = "cb_test")
              /\ ~(pc[w][c] = "rp_resched" /\ pc'[w][c] = "pending")]_vars

\* did the blob name exist in the container of w just before the j-th storage
\* call of stop()'s flush: it was there when stop() was called, or an earlier
\* create of the flush succeeded (nothing deletes a blob)
ExistedAt(w, j, name) ==
  \/ name \in DOMAIN stopPre[w].blobs
  \/ \E k \in 1..(j - 1) :
       StopCalls(w)[k].op = "create" /\ StopCalls(w)[k].name = name /\ StopCalls(w)[k].ok
\* the j-th call is a listing that reported the target absent (a listing that
\* fails reports nothing, so the target counts as absent)
ReportedAbsent(w, j) ==
  /\ StopCalls(w)[j].op = "list"
  /\ ~StopCalls(w)[j].ok \/ ~ExistedAt(w, j, StopCalls(w)[j].name)
\* the j-th call found the target or created it
FoundOrCreated(w, j) ==
  \/ StopCalls(w)[j].op = "create" /\ StopCalls(w)[j].ok
  \/ /\ StopCalls(w)[j].op = "list" /\ StopCalls(w)[j].ok
     /\ ExistedAt(w, j, StopCalls(w)[j].name)

\* C25: in the storage calls of a flush, the first call that names a target is
\* the existence check; a create directly follows an existence check of the
\* same target that reported it absent; and the last call before the appends
\* of a group is one that found the target or created it with success, so no
\* append goes to a target neither found nor successfully created.
C25_CheckCreateAppendOrder ==
  \A w \in Writers :
    LET cs == StopCalls(w)
    IN  \A j \in DOMAIN cs :
          /\ (\A k \in 1..(j - 1) : cs[k].name # cs[j].name) => cs[j].op = "list"
          /\ cs[j].op = "create"
               => j > 1 /\ cs[j - 1].name = cs[j].name /\ ReportedAbsent(w, j - 1)
          /\ cs[j].op = "append"
               => \E k \in 1..(j - 1) :
                    /\ cs[k].name = cs[j].name /\ FoundOrCreated(w, k)
                    /\ \A l \in (k + 1)..(j - 1) : cs[l].op = "append"

\* C25 witness: a flush is over in which one create failed and an append of a
\* packet succeeded.
C25_Witness ==
  /\ pc["w1"][Stopper] = "returned"
  /\ \E j \in DOMAIN StopCalls("w1") :
       StopCalls("w1")[j].op = "create" /\ ~StopCalls("w1")[j].ok
  /\ \E j \in DOMAIN StopCalls("w1") :
       StopCalls("w1")[j].op = "append" /\ StopCalls("w1")[j].ok

\* C26: no create is issued for a target that exists, so what a blob held
\* before the flush is still the beginning of what it holds afterwards.
C26_CreateNeverResets ==
  \A w \in Writers :
    /\ \A j \in DOMAIN StopCalls(w) :
         StopCalls(w)[j].op = "create" => ~ExistedAt(w, j, StopCalls(w)[j].name)
    /\ pc[w][Stopper] # "idle"
         => \A name \in DOMAIN stopPre[w].blobs :
              /\ name \in DOMAIN blobs[ContainerOf(w)]
              /\ Len(blobs[ContainerOf(w)][name]) >= Len(Before(w, name))
              /\ SubSeq(blobs[ContainerOf(w)][name], 1, Len(Before(w, name)))
                   = Before(w, name)

\* thread p of writer w takes a step of a flush whose snapshot is empty: the
\* drain ends on an empty buffer, or the flush ends on the empty snapshot
EmptyFlushStep(w, p) ==
  /\ tmp_buffer[w][p] = <<>>
  /\ \/ pc[w][p] = "cb_test" /\ pc'[w][p] = "wb_process"
     \/ pc[w][p] = "wb_process" /\ pc'[w][p] # "wb_process"

\* C27: a flush whose drain finds the buffer empty issues no storage call and
\* leaves the buffer, running, the timer and every blob as they were; it ends
\* without raising.
C27_EmptyFlushIsNoOp ==
  [][\A w \in Writers, p \in Procs :
       EmptyFlushStep(w, p)
         => /\ buffer'[w] = buffer[w] /\ running'[w] = running[w]
            /\ timer'[w] = timer[w] /\ blobs' = blobs
            /\ calls'[w][p] = <<>>
            /\ pc'[w][p] \in {"wb_process", AfterFlush(p)}]_vars

\* C27 witness: stop() on a running writer with an empty buffer has returned
\* after the flush of an empty snapshot.
C27_Witness ==
  /\ pc["w1"][Stopper] = "returned"
  /\ stopPre["w1"].running /\ stopPre["w1"].n = 0
  /\ Snapshot("w1") = <<>> /\ StopCalls("w1") = <<>>

\* the records of the snapshot of stop()'s flush that go to the blob name
GroupOf(w, name) == SelectSeq(Snapshot(w), LAMBDA item : TargetOf(item) = name)
\* no existence check and no create of the blob name failed in stop()'s flush
ReachedPackets(w, name) ==
  \A j \in DOMAIN StopCalls(w) :
    StopCalls(w)[j].name = name /\ StopCalls(w)[j].op # "append" => StopCalls(w)[j].ok
\* the append calls for the group are its chunks of packet_size records, in order
ChunkPerAppend(group, packet_size, appends) ==
  /\ packet_size >= 1
  /\ Len(appends) = Len(Chunks(group, packet_size))
  /\ \A k \in DOMAIN appends : appends[k].data = Chunks(group, packet_size)[k]

\* C28: when a flush is over, every group of n records whose target was found
\* or created has been sent in exactly ceil(n / packet_size) append calls, the
\* k-th carrying the k-th chunk of packet_size consecutive records: no chunk
\* is empty, all but the last are full, and together they are the group.
C28_PacketsAreTheChunks ==
  \A w \in Writers :
    pc[w][Stopper] = "returned" /\ (\A i \in DOMAIN Snapshot(w) : WellFormed(Snapshot(w)[i]))
      => \A i \in DOMAIN Snapshot(w) :
           LET name == TargetOf(Snapshot(w)[i])
           IN  ReachedPackets(w, name)
                 => ChunkPerAppend(GroupOf(w, name), PacketSize(GroupOf(w, name)),
                                   AppendsTo(StopCalls(w), name))

\* the ids of the records of a packet, and of the lines of a blob
IdsOf(data) == { data[i].id : i \in DOMAIN data }
LineIds(c, name) == { blobs[c][name][i].line.id : i \in DOMAIN blobs[c][name] }
AppendCalls(w, p) == { j \in DOMAIN calls[w][p] : calls[w][p][j].op = "append" }

\* C29: in the storage calls of one flush no record is the subject of two
\* append calls, failed or not; the records of a failed append are not in the
\* buffer again and are in no blob, also while later flushes run; and no
\* record is in a blob twice.
C29_FailedAppendNotRetried ==
  \A w \in Writers :
    /\ \A p \in Procs : \A j, k \in AppendCalls(w, p) :
         j # k => IdsOf(calls[w][p][j].data) \cap IdsOf(calls[w][p][k].data) = {}
    /\ \A p \in Procs : \A j \in AppendCalls(w, p) :
         ~calls[w][p][j].ok
           => /\ IdsOf(calls[w][p][j].data) \cap IdsOf(buffer[w]) = {}
              /\ \A name \in DOMAIN blobs[ContainerOf(w)] :
                   IdsOf(calls[w][p][j].data) \cap LineIds(ContainerOf(w), name) = {}
    /\ \A name \in DOMAIN blobs[ContainerOf(w)] :
         \A i, l \in DOMAIN blobs[ContainerOf(w)][name] :
           i # l => blobs[ContainerOf(w)][name][i].line.id
                      # blobs[ContainerOf(w)][name][l].line.id

\* C29 witness: in a flush that is over, the append of the first packet of a
\* group failed and the append of its next packet followed and succeeded.
C29_Witness ==
  \E p \in Procs :
    /\ FlushOver("w1", p)
    /\ \E j \in AppendCalls("w1", p) :
         /\ ~calls["w1"][p][j].ok
         /\ j + 1 \in AppendCalls("w1", p)
         /\ calls["w1"][p][j + 1].ok
         /\ calls["w1"][p][j + 1].name = calls["w1"][p][j].name

\* the distinct elements of a sequence, in the order of their first occurrence
RECURSIVE FirstSeen(_)
FirstSeen(q) ==
  IF q = <<>> THEN <<>>
  ELSE LET front == FirstSeen(SubSeq(q, 1, Len(q) - 1))
       IN  IF q[Len(q)] \in Range(front) THEN front ELSE Append(front, q[Len(q)])
NamesCalled(w) == [j \in DOMAIN StopCalls(w) |-> StopCalls(w)[j].name]
TargetsOfSnapshot(w) == [i \in DOMAIN Snapshot(w) |-> TargetOf(Snapshot(w)[i])]

\* C30: the targets named by the storage calls of a flush appear in the order
\* in which their keys first occur in the snapshot (all of them once the flush
\* is over), and the calls of one target are consecutive: every call for a
\* group, its packets included, precedes every call for the next group.
C30_GroupsInFirstSeenOrder ==
  \A w \in Writers :
    StopCalls(w) # <<>>
      => LET named == FirstSeen(NamesCalled(w))
             targets == FirstSeen(TargetsOfSnapshot(w))
         IN  /\ Len(named) <= Len(targets)
             /\ named = SubSeq(targets, 1, Len(named))
             /\ pc[w][Stopper] = "returned" => named = targets
             /\ \A j, l \in DOMAIN StopCalls(w) :
                  j < l /\ StopCalls(w)[j].name = StopCalls(w)[l].name
                    => \A k \in j..l : StopCalls(w)[k].name = StopCalls(w)[j].name

\* C30 witness: a flush is over whose snapshot has the key of its first record
\* again after a record of another key, and both groups had a packet appended.
C30_Witness ==
  /\ pc["w1"][Stopper] = "returned"
  /\ Len(Snapshot("w1")) = 3
  /\ \A i \in 1..3 : WellFormed(Snapshot("w1")[i])
  /\ Triple(Snapshot("w1")[1]) = Triple(Snapshot("w1")[3])
  /\ Triple(Snapshot("w1")[1]) # Triple(Snapshot("w1")[2])
  /\ \A i \in 1..2 : AppendsTo(StopCalls("w1"), TargetOf(Snapshot("w1")[i])) # <<>>

\* the timers of writer w that are scheduled and have not fired
PendingTimers(w) == { c \in Chains : pc[w][c] = "pending" }

\* C31: whatever the number of start() calls on a writer, at most one of its
\* timers is pending at any time.
C31_OneTimerPending ==
  \A w \in Writers : Cardinality(PendingTimers(w)) <= 1

IsProcess == reply'.op = "process" /\ (reply' # reply \/ nextId' # nextId)
\* a message that process_message must turn down
Unacceptable(m) ==
  \/ m.tenant_id = FieldAbsent \/ m.asset_id = FieldAbsent
  \/ m.timestamp \in {KeyAbsent, TSGarbage}
  \/ m.tenant_id \notin DOMAIN blob_writers

\* C32: every call of process_message ends with True or False and with no
\* exception; for a message without tenant_id, asset_id or timestamp, with a
\* timestamp that is no date, or of a tenant the dispatcher does not know, it
\* returns False and no buffer changes; for any other message it returns True
\* and the data of the message is at the end of the buffer of the writer of
\* its tenant, no other buffer changed.
C32_TrueIffEnqueued ==
  [][IsProcess
       => LET m == reply'.message
          IN  IF Unacceptable(m)
              THEN reply'.result = "False" /\ buffer' = buffer /\ nextId' = nextId
              ELSE /\ reply'.result = "True"
                   /\ buffer' = [buffer EXCEPT ![blob_writers[m.tenant_id]] =
                                   Append(@, DataOf(m, nextId))]]_vars

\* C32 witness: after a message of tenant t1 was enqueued, a well-formed
\* message of the unregistered tenant t2 has been answered with False.
C32_Witness ==
  /\ reply.op = "process" /\ reply.result = "False"
  /\ reply.message.tenant_id = "t2" /\ reply.message.asset_id = "a1"
  /\ reply.message.timestamp = TS0800
  /\ Len(buffer["w1"]) = 1

\* C38: once a KeyboardInterrupt has been received in run_forever (which sets
\* stop_event), the reader is not started again and main is not in its loop
\* any more.
C38_InterruptEndsMain ==
  [][reader.stop_event
       => /\ reader'.starts = reader.starts
          /\ main_pc' \notin {"loop", "rf_start", "rf_block"}]_vars

\* the lists of a sequence of lists, one after the other
RECURSIVE Flatten(_)
Flatten(lists) ==
  IF lists = <<>> THEN <<>> ELSE Flatten(SubSeq(lists, 1, Len(lists) - 1)) \o lists[Len(lists)]
\* the threads whose clear_buffer has emptied the list and not yet returned
Clearing == { t \in QThreads : q_pc[t] = "cl_return" }

\* C33: in every interleaving of appendBuffer and clear_buffer calls, the
\* lists that clear_buffer has returned (and the one it is about to return),
\* followed by the buffer, are the appended messages in append order, each
\* once; and the buffer is empty when a clear_buffer has emptied it and until
\* it returns.
C33_BufferIsThreadSafe ==
  /\ Cardinality(Clearing) <= 1
  /\ \A t \in Clearing :
       q_buffer = <<>> /\ Flatten(q_returned) \o q_tmp[t] = q_appended
  /\ Clearing = {} => Flatten(q_returned) \o q_buffer = q_appended
  /\ \A i, j \in DOMAIN q_appended : i # j => q_appended[i] # q_appended[j]

\* C33 witness: a clear_buffer has emptied a list of one message and holds
\* the lock, while a thread with the next message waits for the lock.
C33_Witness ==
  \E t, u \in QThreads :
    /\ q_pc[t] = "cl_return" /\ Len(q_tmp[t]) = 1 /\ q_lock = t
    /\ q_pc[u] = "ab_lock"

\* C34: a timer thread that is in the drain of a flush gets out of it: it is
\* not left waiting in self.buffer.get() for ever.
C34_DrainTerminates ==
  \A c \in Chains :
    pc["w1"][c] \in {"cb_test", "cb_get"} ~> pc["w1"][c] \notin {"cb_test", "cb_get"}

\* the groups of stop()'s flush that record item belongs to
GroupsOf(w, item) ==
  { k \in DOMAIN blob_data[w][Stopper] :
      item \in Range(filter_by_type_and_date(Snapshot(w), blob_data[w][Stopper][k].type,
                                             blob_data[w][Stopper][k].date,
                                             blob_data[w][Stopper][k].time)) }
GroupSizes(w) ==
  [k \in DOMAIN blob_data[w][Stopper] |->
     Len(filter_by_type_and_date(Snapshot(w), blob_data[w][Stopper][k].type,
                                 blob_data[w][Stopper][k].date,
                                 blob_data[w][Stopper][k].time))]

\* C35: once a flush has its keys, every record of its snapshot (all of them
\* well formed) is in exactly one of its groups, and the sizes of the groups
\* add up to the size of the snapshot.
C35_GroupsPartitionSnapshot ==
  \A w \in Writers :
    InGroups(w, Stopper) \/ pc[w][Stopper] = "returned"
      => /\ \A i \in DOMAIN Snapshot(w) : Cardinality(GroupsOf(w, Snapshot(w)[i])) = 1
         /\ SumOver(GroupSizes(w), DOMAIN GroupSizes(w)) = Len(Snapshot(w))

\* C36: of two records of one target, the one enqueued first (the lower id)
\* is the earlier line, whichever packets and flushes appended them.
C36_EnqueueOrderKept ==
  \A w \in Writers : \A name \in DOMAIN blobs[ContainerOf(w)] :
    \A i, l \in DOMAIN blobs[ContainerOf(w)][name] :
      blobs[ContainerOf(w)][name][i].line.id < blobs[ContainerOf(w)][name][l].line.id
        => i < l

\* the tenant id that record item was dispatched with is t
DispatchedWith(item, t) == sent[item.id] = t
\* the tenant that writer w was constructed for
TenantsOf(w) == { t \in DOMAIN ConfigA : ConfigA[t] = w }

\* C37: every record in a writer's buffer, and in the snapshot of any of its
\* flushes, was dispatched with the tenant id of that writer, and every line
\* of a blob was dispatched with the tenant id whose container holds the blob.
C37_TenantsIsolated ==
  /\ \A w \in Writers :
       /\ \A i \in DOMAIN buffer[w] : \E t \in TenantsOf(w) : DispatchedWith(buffer[w][i], t)
       /\ \A p \in Procs : \A i \in DOMAIN tmp_buffer[w][p] :
            \E t \in TenantsOf(w) : DispatchedWith(tmp_buffer[w][p][i], t)
  /\ \A c \in Containers : \A name \in DOMAIN blobs[c] : \A i \in DOMAIN blobs[c][name] :
       \E t \in DOMAIN ContainerOfTenant :
         /\ ContainerOfTenant[t] = c
         /\ DispatchedWith(blobs[c][name][i].line, t)

\* C37 witness: flushes of the writers of two tenants have each appended a
\* record, to a blob of their own container.
C37_Witness ==
  /\ \E name \in DOMAIN blobs["c1"] : \E i \in DOMAIN blobs["c1"][name] :
       DispatchedWith(blobs["c1"][name][i].line, "t1")
  /\ \E name \in DOMAIN blobs["c2"] : \E i \in DOMAIN blobs["c2"][name] :
       DispatchedWith(blobs["c2"][name][i].line, "t2")

=============================================================================
